---- MODULE Spec2Model ----
\* Verification model of src/mortgage_app.py: the Streamlit mortgage page, its
\* two functions calculate_monthly_payment and create_amortization_schedule,
\* and the Python float (IEEE-754 binary64) arithmetic they are written in.
EXTENDS Integers, Sequences, FiniteSets, TLC

\* ---------------------------------------------------------------------------
\* Natural numbers of arbitrary size.  TLC's integers are 32 bits wide, a
\* binary64 significand is 53 bits, so significands are little-endian
\* sequences of 15-bit limbs with no leading (high) zero limb; <<>> is 0.
\* ---------------------------------------------------------------------------
LimbBits == 15
Base == 2^LimbBits

Limb(a, i) == IF i <= Len(a) THEN a[i] ELSE 0

RECURSIVE Trim(_)
Trim(a) ==
    IF a = <<>> THEN <<>>
    ELSE IF a[Len(a)] = 0 THEN Trim(SubSeq(a, 1, Len(a) - 1))
    ELSE a

RECURSIVE AddFrom(_, _, _, _)
AddFrom(a, b, i, c) ==
    IF i > Len(a) /\ i > Len(b) THEN (IF c = 0 THEN <<>> ELSE <<c>>)
    ELSE LET s == Limb(a, i) + Limb(b, i) + c
         IN  <<s % Base>> \o AddFrom(a, b, i + 1, s \div Base)

BigAdd(a, b) == AddFrom(a, b, 1, 0)

\* a - b for a >= b
RECURSIVE SubFrom(_, _, _, _)
SubFrom(a, b, i, c) ==
    IF i > Len(a) THEN <<>>
    ELSE LET d == a[i] - Limb(b, i) - c
         IN  IF d < 0 THEN <<d + Base>> \o SubFrom(a, b, i + 1, 1)
             ELSE <<d>> \o SubFrom(a, b, i + 1, 0)

BigSub(a, b) == Trim(SubFrom(a, b, 1, 0))

\* a * k for 0 <= k < Base
RECURSIVE MulSmallFrom(_, _, _, _)
MulSmallFrom(a, k, i, c) ==
    IF i > Len(a) THEN (IF c = 0 THEN <<>> ELSE <<c>>)
    ELSE LET s == a[i] * k + c
         IN  <<s % Base>> \o MulSmallFrom(a, k, i + 1, s \div Base)

BigMulSmall(a, k) == IF k = 0 THEN <<>> ELSE MulSmallFrom(a, k, 1, 0)

RECURSIVE MulFrom(_, _, _)
MulFrom(a, b, j) ==
    IF j > Len(b) THEN <<>>
    ELSE LET rest == MulFrom(a, b, j + 1)
         IN  BigAdd(BigMulSmall(a, b[j]),
                    IF rest = <<>> THEN <<>> ELSE <<0>> \o rest)

BigMul(a, b) == IF a = <<>> \/ b = <<>> THEN <<>> ELSE MulFrom(a, b, 1)

\* -1, 0, 1 as a < b, a = b, a > b
RECURSIVE CmpFrom(_, _, _)
CmpFrom(a, b, i) ==
    IF i = 0 THEN 0
    ELSE IF a[i] < b[i] THEN -1
    ELSE IF a[i] > b[i] THEN 1
    ELSE CmpFrom(a, b, i - 1)

BigCmp(a, b) ==
    IF Len(a) < Len(b) THEN -1
    ELSE IF Len(a) > Len(b) THEN 1
    ELSE CmpFrom(a, b, Len(a))

RECURSIVE SmallBitLen(_)
SmallBitLen(k) == IF k = 0 THEN 0 ELSE 1 + SmallBitLen(k \div 2)

BitLen(a) ==
    IF a = <<>> THEN 0
    ELSE LimbBits * (Len(a) - 1) + SmallBitLen(a[Len(a)])

\* bit i of a, bit 0 the least significant
Bit(a, i) == (Limb(a, (i \div LimbBits) + 1) \div 2^(i % LimbBits)) % 2

Zeros(n) == [i \in 1..n |-> 0]

\* a * 2^k
BigShl(a, k) ==
    IF a = <<>> THEN <<>>
    ELSE Zeros(k \div LimbBits) \o BigMulSmall(a, 2^(k % LimbBits))

\* floor(a / d) for 0 < d < Base, from the high limb down
RECURSIVE DivSmallFrom(_, _, _, _)
DivSmallFrom(a, d, i, r) ==
    IF i = 0 THEN <<>>
    ELSE LET n == r * Base + a[i]
         IN  DivSmallFrom(a, d, i - 1, n % d) \o <<n \div d>>

BigDivSmall(a, d) == Trim(DivSmallFrom(a, d, Len(a), 0))

\* floor(a / 2^k)
BigShr(a, k) ==
    LET w == k \div LimbBits
    IN  IF w >= Len(a) THEN <<>>
        ELSE BigDivSmall(SubSeq(a, w + 1, Len(a)), 2^(k % LimbBits))

\* TRUE iff the k low bits of a are all 0
LowZero(a, k) ==
    LET w == k \div LimbBits
    IN  /\ \A i \in 1..w : Limb(a, i) = 0
        /\ Limb(a, w + 1) % 2^(k % LimbBits) = 0

\* a * Base + d for a limb d
Push(a, d) == IF a = <<>> /\ d = 0 THEN <<>> ELSE <<d>> \o a

\* the largest d in lo..hi with b * d <= r, given b * lo <= r
RECURSIVE Digit(_, _, _, _)
Digit(r, b, lo, hi) ==
    IF lo = hi THEN lo
    ELSE LET mid == (lo + hi + 1) \div 2
         IN  IF BigCmp(BigMulSmall(b, mid), r) <= 0
             THEN Digit(r, b, mid, hi)
             ELSE Digit(r, b, lo, mid - 1)

\* long division, one limb of a at a time from limb i down:
\* <<quotient, remainder>>
RECURSIVE DivModFrom(_, _, _, _, _)
DivModFrom(a, b, i, q, r) ==
    IF i = 0 THEN <<q, r>>
    ELSE LET r2 == Push(r, a[i])
             d  == Digit(r2, b, 0, Base - 1)
         IN  DivModFrom(a, b, i - 1, Push(q, d), BigSub(r2, BigMulSmall(b, d)))

BigDivMod(a, b) == DivModFrom(a, b, Len(a), <<>>, <<>>)

RECURSIVE NatLimbs(_)
NatLimbs(n) == IF n = 0 THEN <<>> ELSE <<n % Base>> \o NatLimbs(n \div Base)

\* ---------------------------------------------------------------------------
\* Python float: sign s (0 is +, 1 is -), significand m of exactly Precision
\* bits, exponent e, value (-1)^s * m * 2^e; zero is Zero (Python's -0.0
\* compares equal to 0 and is not told apart).  The exponent is unbounded:
\* no input of the model comes near binary64's overflow or subnormal range.
\* Every operation rounds the exact result to nearest, ties to even.
\* ---------------------------------------------------------------------------
Precision == 53

Zero == [s |-> 0, m |-> <<>>, e |-> 0]

IsZero(x) == x.m = <<>>

\* (-1)^s * M * 2^e, M > 0 exact apart from a sticky rest below its last bit,
\* rounded to p bits
RoundTo(p, s, M, e, sticky) ==
    LET L == BitLen(M)
    IN  IF L <= p THEN [s |-> s, m |-> BigShl(M, p - L), e |-> e - (p - L)]
        ELSE LET k    == L - p
                 q    == BigShr(M, k)
                 half == Bit(M, k - 1) = 1
                 rest == sticky \/ ~LowZero(M, k - 1)
                 up   == half /\ (rest \/ Bit(q, 0) = 1)
                 q1   == IF up THEN BigAdd(q, <<1>>) ELSE q
             IN  IF BitLen(q1) > p
                 THEN [s |-> s, m |-> BigShr(q1, 1), e |-> e + k + 1]
                 ELSE [s |-> s, m |-> q1, e |-> e + k]

Round(s, M, e) == RoundTo(Precision, s, M, e, FALSE)

\* int -> float, as Python converts an int operand of a float operation
FromInt(n) ==
    IF n = 0 THEN Zero
    ELSE IF n < 0 THEN Round(1, NatLimbs(-n), 0)
    ELSE Round(0, NatLimbs(n), 0)

\* the float n * 2^e
Float(n, e) == LET f == FromInt(n) IN IF n = 0 THEN Zero ELSE [f EXCEPT !.e = @ + e]

One == FromInt(1)

Neg(x) == IF IsZero(x) THEN x ELSE [x EXCEPT !.s = 1 - @]

MulP(p, a, b) ==
    IF IsZero(a) \/ IsZero(b) THEN Zero
    ELSE RoundTo(p, (a.s + b.s) % 2, BigMul(a.m, b.m), a.e + b.e, FALSE)

\* a / b, b not zero
DivP(p, a, b) ==
    IF IsZero(a) THEN Zero
    ELSE LET sh == p + 2 + BitLen(b.m)
             qr == BigDivMod(BigShl(a.m, sh), b.m)
         IN  RoundTo(p, (a.s + b.s) % 2, qr[1], a.e - b.e - sh, qr[2] # <<>>)

FMul(a, b) == MulP(Precision, a, b)

FDiv(a, b) == DivP(Precision, a, b)

FAdd(a, b) ==
    IF IsZero(a) THEN b
    ELSE IF IsZero(b) THEN a
    ELSE LET e  == IF a.e < b.e THEN a.e ELSE b.e
             A  == BigShl(a.m, a.e - e)
             Bm == BigShl(b.m, b.e - e)
             c  == BigCmp(A, Bm)
         IN  IF a.s = b.s THEN Round(a.s, BigAdd(A, Bm), e)
             ELSE IF c = 0 THEN Zero
             ELSE IF c > 0 THEN Round(a.s, BigSub(A, Bm), e)
             ELSE Round(b.s, BigSub(Bm, A), e)

FSub(a, b) == FAdd(a, Neg(b))

\* a < b
FLess(a, b) ==
    LET d == FSub(a, b) IN ~IsZero(d) /\ d.s = 1

FLeq(a, b) == a = b \/ FLess(a, b)

FAbs(x) == [x EXCEPT !.s = 0]

\* x ** n for a float x > 0 and an int n (C pow): the power is computed with
\* GuardBits extra bits and then rounded to Precision bits, which is libm's
\* accuracy (the exact power rounded, but for a result within 2^-GuardBits of
\* a rounding boundary).
GuardBits == 32

PowOdd(x, n, sq) ==
    IF n % 2 = 1 THEN MulP(Precision + GuardBits, sq, x) ELSE sq

PowSquare(x, n, h) == PowOdd(x, n, MulP(Precision + GuardBits, h, h))

\* x ** n for n >= 1 by squaring, in Precision + GuardBits bits
RECURSIVE PowP(_, _)
PowP(x, n) == IF n = 1 THEN x ELSE PowSquare(x, n, PowP(x, n \div 2))

Reround(r) == RoundTo(Precision, r.s, r.m, r.e, FALSE)

Pow(x, n) ==
    IF n = 0 THEN One
    ELSE IF n > 0 THEN Reround(PowP(x, n))
    ELSE Reround(DivP(Precision + GuardBits, One, PowP(x, -n)))

\* ---------------------------------------------------------------------------
\* The sidebar inputs (lines 22-48)
\* ---------------------------------------------------------------------------
MinPrincipal == 1000
MaxPrincipal == 10000000
DefaultPrincipal == 300000
MinRate == Zero
MaxRate == FromInt(20)
DefaultRate == Float(13, -1)
MinYears == 1
MaxYears == 50
DefaultYears == 30

\* annual rates below which the annuity formula loses its significance:
\* 2^-50 (1 + monthly_rate rounds to 1), 3 * 2^-44 and 7 * 2^-44 (the power
\* minus 1 keeps one or two bits)
RateVanishing == Float(1, -50)
RateUnder == Float(3, -44)
RateOver == Float(7, -44)

\* what a user may type into the three inputs
PrincipalChoices ==
    {MinPrincipal - 1, MinPrincipal, DefaultPrincipal, MaxPrincipal, MaxPrincipal + 1}

RateChoices ==
    {Float(-1, -1), Zero, RateVanishing, RateUnder, RateOver, DefaultRate,
     MaxRate, Float(41, -1)}

YearChoices == {MinYears - 1, MinYears, 2, DefaultYears, MaxYears, MaxYears + 1}

\* arguments of a direct call of the two functions, valid or not
ArgPrincipals == {MinPrincipal, DefaultPrincipal}
ArgRates == {Zero, RateVanishing, RateUnder, DefaultRate}
ArgYears == {-1, 0, 1, 2}

None == [none |-> TRUE]

VARIABLES
    loan_principal, annual_rate, loan_years,   \* the values of the three inputs
    pc,                  \* position of the script run
    exception,           \* the exception that ended the run, or "none"
    monthly_payment,     \* line 107
    schedule,            \* line 110: the rows of the DataFrame (<<>> before)
    total_payments, total_interest,            \* lines 113-114
    \* the frame of create_amortization_schedule
    payment,             \* its local monthly_payment (line 70)
    monthly_rate, num_payments,                \* lines 71-72
    payment_numbers, payment_amounts, principal_payments,
    interest_payments, remaining_balances,     \* lines 74-78
    remaining_balance,   \* line 80, 85
    payment_num          \* the loop variable of line 82

inputs == <<loan_principal, annual_rate, loan_years>>
frame == <<payment, monthly_rate, num_payments, payment_numbers, payment_amounts,
           principal_payments, interest_payments, remaining_balances,
           remaining_balance, payment_num>>
results == <<monthly_payment, schedule, total_payments, total_interest>>
vars == <<inputs, pc, exception, results, frame>>

\* [raised |-> TRUE] is a ZeroDivisionError
Raised == [raised |-> TRUE]

Returned(v) == [raised |-> FALSE, value |-> v]

\* line 56
monthly_rate_of(rate) == FDiv(FDiv(rate, FromInt(100)), FromInt(12))

\* the division of lines 62-63
annuity_quotient(numerator, denominator) ==
    IF IsZero(denominator) THEN Raised ELSE Returned(FDiv(numerator, denominator))

\* lines 62-63, power being (1 + monthly_rate) ** num_payments
annuity(principal, mr, power) ==
    annuity_quotient(FMul(FromInt(principal), FMul(mr, power)), FSub(power, One))

\* line 60
straight_line(principal, n) ==
    IF n = 0 THEN Raised ELSE Returned(FDiv(FromInt(principal), FromInt(n)))

\* lines 59-63 with the zero-rate branch left out
payment_of_annuity_only(principal, mr, n) ==
    annuity(principal, mr, Pow(FAdd(One, mr), n))

\* lines 59-63
payment_of(principal, mr, n) ==
    IF IsZero(mr) THEN straight_line(principal, n)
    ELSE annuity(principal, mr, Pow(FAdd(One, mr), n))

\* lines 54-65
calculate_monthly_payment(principal, rate, years) ==
    payment_of(principal, monthly_rate_of(rate), years * 12)

\* max(0, x) of line 91
Max0(x) == IF ~IsZero(x) /\ x.s = 0 THEN x ELSE Zero

EmptyFrame ==
    /\ payment = None /\ monthly_rate = None /\ num_payments = 0
    /\ payment_numbers = <<>> /\ payment_amounts = <<>>
    /\ principal_payments = <<>> /\ interest_payments = <<>>
    /\ remaining_balances = <<>>
    /\ remaining_balance = None /\ payment_num = 0

\* the start of a script run: nothing computed yet
Fresh ==
    /\ pc = "run" /\ exception = "none"
    /\ monthly_payment = None /\ schedule = <<>>
    /\ total_payments = None /\ total_interest = None
    /\ EmptyFrame

\* a rerun starts the script afresh
Rerun ==
    /\ pc' = "run" /\ exception' = "none"
    /\ monthly_payment' = None /\ schedule' = <<>>
    /\ total_payments' = None /\ total_interest' = None
    /\ payment' = None /\ monthly_rate' = None /\ num_payments' = 0
    /\ payment_numbers' = <<>> /\ payment_amounts' = <<>>
    /\ principal_payments' = <<>> /\ interest_payments' = <<>>
    /\ remaining_balances' = <<>>
    /\ remaining_balance' = None /\ payment_num' = 0

Init ==
    /\ loan_principal = DefaultPrincipal
    /\ annual_rate = DefaultRate
    /\ loan_years = DefaultYears
    /\ Fresh

\* the functions called with arbitrary arguments: both as the script calls
\* them (pc = "run"), or create_amortization_schedule alone (pc = "call")
InitCall ==
    /\ loan_principal \in ArgPrincipals
    /\ annual_rate \in ArgRates
    /\ loan_years \in ArgYears
    /\ pc \in {"run", "call"} /\ exception = "none"
    /\ monthly_payment = None /\ schedule = <<>>
    /\ total_payments = None /\ total_interest = None
    /\ EmptyFrame

\* number_input of lines 22-29: a value within min_value..max_value is taken
\* and the script reruns
ChangePrincipal(v) ==
    /\ MinPrincipal <= v /\ v <= MaxPrincipal
    /\ v # loan_principal
    /\ loan_principal' = v
    /\ UNCHANGED <<annual_rate, loan_years>>
    /\ Rerun

\* number_input of lines 31-39
ChangeRate(v) ==
    /\ FLeq(MinRate, v) /\ FLeq(v, MaxRate)
    /\ v # annual_rate
    /\ annual_rate' = v
    /\ UNCHANGED <<loan_principal, loan_years>>
    /\ Rerun

\* number_input of lines 41-48
ChangeYears(v) ==
    /\ MinYears <= v /\ v <= MaxYears
    /\ v # loan_years
    /\ loan_years' = v
    /\ UNCHANGED <<loan_principal, annual_rate>>
    /\ Rerun

\* button of line 51: a click reruns the script with the inputs as they are
ClickCalculate ==
    /\ pc # "run"
    /\ UNCHANGED inputs
    /\ Rerun

\* line 107 with r the outcome of the call
MainResult(r) ==
    IF r.raised
    THEN /\ pc' = "error" /\ exception' = "ZeroDivisionError"
         /\ UNCHANGED monthly_payment
    ELSE /\ pc' = "call" /\ monthly_payment' = r.value
         /\ UNCHANGED exception

MainPayment ==
    /\ pc = "run"
    /\ MainResult(calculate_monthly_payment(loan_principal, annual_rate, loan_years))
    /\ UNCHANGED <<inputs, schedule, total_payments, total_interest, frame>>

\* lines 70-80 with r the outcome of the call of line 70
EnterResult(r) ==
    IF r.raised
    THEN /\ pc' = "error" /\ exception' = "ZeroDivisionError"
         /\ UNCHANGED frame
    ELSE /\ pc' = "loop"
         /\ payment' = r.value
         /\ monthly_rate' = monthly_rate_of(annual_rate)
         /\ num_payments' = loan_years * 12
         /\ payment_numbers' = <<>> /\ payment_amounts' = <<>>
         /\ principal_payments' = <<>> /\ interest_payments' = <<>>
         /\ remaining_balances' = <<>>
         /\ remaining_balance' = FromInt(loan_principal)
         /\ payment_num' = 1
         /\ UNCHANGED exception

\* line 110 entering create_amortization_schedule, lines 70-80
ScheduleEnter ==
    /\ pc = "call"
    /\ EnterResult(calculate_monthly_payment(loan_principal, annual_rate, loan_years))
    /\ UNCHANGED <<inputs, results>>

\* one iteration of the loop, lines 82-91
interest_payment_of(balance) == FMul(balance, monthly_rate)

\* line 84 without the interest: the whole payment goes to principal
principal_payment_of_whole(balance) == payment

principal_payment_of(balance) == FSub(payment, interest_payment_of(balance))

\* line 85 adding the principal portion instead of subtracting it
balance_after_added(balance) == FAdd(balance, principal_payment_of(balance))

\* line 85 with the clamp of line 91 applied to the running balance
balance_after_clamped(balance) == Max0(FSub(balance, principal_payment_of(balance)))

balance_after(balance) == FSub(balance, principal_payment_of(balance))

LoopStep ==
    /\ pc = "loop"
    /\ payment_num <= num_payments
    /\ remaining_balance' = balance_after(remaining_balance)
    /\ payment_numbers' = Append(payment_numbers, payment_num)
    /\ payment_amounts' = Append(payment_amounts, payment)
    /\ interest_payments' = Append(interest_payments, interest_payment_of(remaining_balance))
    /\ principal_payments' = Append(principal_payments, principal_payment_of(remaining_balance))
    /\ remaining_balances' = Append(remaining_balances, Max0(remaining_balance'))
    /\ payment_num' = payment_num + 1
    /\ UNCHANGED <<inputs, pc, exception, results, payment, monthly_rate, num_payments>>

\* lines 93-101: the five lists become the columns of the DataFrame
DataFrame ==
    [i \in 1..Len(payment_numbers) |->
        [Payment_Number    |-> payment_numbers[i],
         Payment_Amount    |-> payment_amounts[i],
         Principal_Payment |-> principal_payments[i],
         Interest_Payment  |-> interest_payments[i],
         Remaining_Balance |-> remaining_balances[i]]]

ScheduleReturn ==
    /\ pc = "loop"
    /\ payment_num > num_payments
    /\ schedule' = DataFrame
    /\ pc' = IF monthly_payment = None THEN "returned" ELSE "summary"
    /\ UNCHANGED <<inputs, exception, monthly_payment, total_payments, total_interest, frame>>

\* lines 113-114
Summary ==
    /\ pc = "summary"
    /\ total_payments' = FMul(FMul(monthly_payment, FromInt(loan_years)), FromInt(12))
    /\ total_interest' = FSub(total_payments', FromInt(loan_principal))
    /\ pc' = "rendered"
    /\ UNCHANGED <<inputs, exception, monthly_payment, schedule, frame>>

Run == MainPayment \/ ScheduleEnter \/ LoopStep \/ ScheduleReturn \/ Summary

Next ==
    \/ \E v \in PrincipalChoices : ChangePrincipal(v)
    \/ \E v \in RateChoices : ChangeRate(v)
    \/ \E v \in YearChoices : ChangeYears(v)
    \/ ClickCalculate
    \/ MainPayment
    \/ ScheduleEnter
    \/ LoopStep
    \/ ScheduleReturn
    \/ Summary

\* the page: the script runs, and reruns on every change of an input
Spec == Init /\ [][Next]_vars

NextCall ==
    \/ MainPayment
    \/ ScheduleEnter
    \/ LoopStep
    \/ ScheduleReturn
    \/ Summary

\* the two functions called with arbitrary arguments
CallSpec == InitCall /\ [][NextCall]_vars

\* ---------------------------------------------------------------------------
\* Properties
\* ---------------------------------------------------------------------------
\* the valid domain of section 3: principal > 0, rate >= 0, term >= 1
Valid == loan_principal > 0 /\ FLeq(Zero, annual_rate) /\ loan_years >= 1

\* create_amortization_schedule has returned
HasSchedule == pc \in {"summary", "rendered", "returned"}

\* the call, or the script run, is over
Ended == pc \in {"rendered", "returned", "error"}

Positive(x) == ~IsZero(x) /\ x.s = 0

\* |a - b| <= k units in the last place of b
WithinUlps(a, b, k) ==
    FLeq(FAbs(FSub(a, b)), FMul(FromInt(k), [s |-> 0, m |-> One.m, e |-> b.e]))

\* float sum of q[lo..hi], halving the range
RECURSIVE PairSum(_, _, _)
PairSum(q, lo, hi) ==
    IF lo > hi THEN Zero
    ELSE IF lo = hi THEN q[lo]
    ELSE LET mid == (lo + hi) \div 2
         IN  FAdd(PairSum(q, lo, mid), PairSum(q, mid + 1, hi))

Cent == FDiv(One, FromInt(100))

StraightLine == FDiv(FromInt(loan_principal), FromInt(loan_years * 12))

\* C1: for every valid input create_amortization_schedule returns exactly
\* termYears * 12 records, the i-th with Payment_Number = i.
C1_ReturnsNumberedSchedule ==
    (Valid /\ Ended) =>
        /\ HasSchedule
        /\ Len(schedule) = loan_years * 12
        /\ \A i \in 1..Len(schedule) : schedule[i].Payment_Number = i

C3_LastBalanceZero ==
    (Valid /\ HasSchedule) =>
        /\ Len(schedule) = loan_years * 12
        /\ schedule[Len(schedule)].Remaining_Balance = Zero

\* C4: for every valid input the Principal_Payment of all periods sum to the
\* principal within 1e-2.
C4_FullyAmortizes ==
    (Valid /\ HasSchedule) =>
        FLeq(FAbs(FSub(PairSum(principal_payments, 1, Len(principal_payments)),
                       FromInt(loan_principal))),
             Cent)

C6_ZeroRateStraightLine ==
    (Valid /\ IsZero(annual_rate)) =>
        LET line == StraightLine
        IN  /\ pc # "error"
            /\ monthly_payment # None => monthly_payment = line
            /\ HasSchedule =>
                 /\ Len(schedule) = loan_years * 12
                 /\ \A i \in 1..Len(schedule) :
                      /\ schedule[i].Payment_Amount = line
                      /\ schedule[i].Interest_Payment = Zero
                      /\ schedule[i].Principal_Payment = line

\* a rendered zero-rate page
C6_ZeroRateRendered ==
    /\ Valid /\ IsZero(annual_rate) /\ pc = "rendered"
    /\ Len(schedule) = loan_years * 12

\* C7: a call with termYears <= 0 neither produces a result nor raises a
\* division by zero: it is reported as InvalidInput.
C7_InvalidTermReported ==
    (loan_years <= 0 /\ pc \notin {"run", "call"}) => exception = "InvalidInput"

\* C8: the summary has totalPaid = monthlyPayment * termYears * 12 and
\* totalInterest = totalPaid - principal, and for every valid input with a
\* positive rate totalInterest > 0 and totalPaid > principal.  (The sum of
\* Payment_Amount over the periods is that same product in real numbers.)
C8_InterestPositive ==
    (Valid /\ pc = "rendered") =>
        /\ total_payments
             = FMul(FMul(monthly_payment, FromInt(loan_years)), FromInt(12))
        /\ total_interest = FSub(total_payments, FromInt(loan_principal))
        /\ \A i \in 1..Len(schedule) : schedule[i].Payment_Amount = monthly_payment
        /\ Positive(annual_rate) =>
             /\ Positive(total_interest)
             /\ FLess(FromInt(loan_principal), total_payments)

\* C9: the running balance is b_0 = principal, b_n = b_(n-1) -
\* Principal_Payment(n), never clamped; the record of period n holds
\* max(0, b_n); the interest of the next period is b_n times the monthly rate.
C9_ClampOnlyInRecord ==
    /\ [](pc = "loop" /\ Len(remaining_balances) = 0
            => remaining_balance = FromInt(loan_principal))
    /\ [][Len(remaining_balances') = Len(remaining_balances) + 1 =>
            LET n == Len(remaining_balances')
            IN  /\ remaining_balance'
                     = FSub(remaining_balance, principal_payments'[n])
                /\ remaining_balances'[n] = Max0(remaining_balance')
                /\ interest_payments'[n] = FMul(remaining_balance, monthly_rate)
         ]_vars

\* a period recorded as 0 whose negative balance bears the next interest
C9_ClampedThenCarried ==
    \E n \in 1..(Len(remaining_balances) - 1) :
        /\ remaining_balances[n] = Zero
        /\ ~IsZero(interest_payments[n + 1])
        /\ interest_payments[n + 1].s = 1

\* C10: every run of the page calls the functions with principal in
\* [1000, 10000000], rate in [0, 20] and term in [1, 50], so num_payments is
\* in [12, 600] and neither division of calculate_monthly_payment meets a
\* zero divisor.
C10_NoZeroDivisor ==
    /\ MinPrincipal <= loan_principal /\ loan_principal <= MaxPrincipal
    /\ FLeq(MinRate, annual_rate) /\ FLeq(annual_rate, MaxRate)
    /\ MinYears <= loan_years /\ loan_years <= MaxYears
    /\ 12 <= loan_years * 12 /\ loan_years * 12 <= 600
    /\ exception # "ZeroDivisionError"

====
